---------------------------- MODULE Spec2Model ----------------------------
(***************************************************************************)
(* Model of the light-calibration photoisomerization rate calculator:      *)
(* the rate computation (src/src/calculator.py), the resampler             *)
(* (src/src/spectrum_utils.py), the Govardovskii nomogram                  *)
(* (src/src/govardovskii.py) and the stimulus importer                     *)
(* (src/src/importer.py).                                                  *)
(*                                                                         *)
(* Numbers are exact decimal-scaled rationals <<n, d, e>> = n/d * 10^e in  *)
(* canonical form, with the IEEE specials NaN and +/-Inf that numpy        *)
(* produces on division by zero.                                           *)
(***************************************************************************)
EXTENDS Integers, Sequences, FiniteSets, TLC

VARIABLES
    stimuli,    \* spectra/stimuli/<name>.csv : name -> NoFile or a spectrum
    photoreceptors,     \* spectra/photoreceptors/<name>.csv, likewise
    collecting_areas,   \* spectra/collecting_areas.json: NoJson or its characters
    writers,    \* the save_collecting_area calls in progress, by process
    call        \* the operation last invoked: its inputs and what it returned

vars == <<stimuli, photoreceptors, collecting_areas, writers, call>>

\* The files and processes that the pure computations never touch.
others == <<photoreceptors, collecting_areas, writers>>

-----------------------------------------------------------------------------
(* Arithmetic on float values.                                             *)

NaN == <<0, 0, 0>>
PInf == <<1, 0, 0>>
NInf == <<-1, 0, 0>>
Zero == <<0, 1, 0>>

IsFinite(x) == x[2] # 0
IsNaN(x) == x = NaN

Abs(i) == IF i < 0 THEN -i ELSE i
Sign(i) == IF i < 0 THEN -1 ELSE IF i > 0 THEN 1 ELSE 0

RECURSIVE GCD(_, _)
GCD(a, b) == IF b = 0 THEN a ELSE GCD(b, a % b)

RECURSIVE Pow10(_)
Pow10(k) == IF k = 0 THEN 1 ELSE 10 * Pow10(k - 1)

\* The canonical form of n/d * 10^e (d > 0): d coprime to 10, n not a
\* multiple of 10, n/d in lowest terms; zero is <<0, 1, 0>>.
RECURSIVE Strip(_, _, _)
Strip(n, d, e) ==
    IF d % 2 = 0 THEN Strip(5 * n, d \div 2, e - 1)
    ELSE IF d % 5 = 0 THEN Strip(2 * n, d \div 5, e - 1)
    ELSE IF n % 10 = 0 THEN Strip(n \div 10, d, e + 1)
    ELSE <<n, d, e>>

Canon(n, d, e) ==
    IF n = 0 THEN Zero
    ELSE LET g == GCD(Abs(n), d) IN Strip(n \div g, d \div g, e)

Num(i) == Canon(i, 1, 0)
Sci(i, e) == Canon(i, 1, e)

Neg(x) == <<-x[1], x[2], x[3]>>

Mul(x, y) ==
    IF IsFinite(x) /\ IsFinite(y)
    THEN LET g1 == GCD(Abs(x[1]), y[2])
             g2 == GCD(Abs(y[1]), x[2])
         IN  Canon((x[1] \div g1) * (y[1] \div g2),
                   (x[2] \div g2) * (y[2] \div g1), x[3] + y[3])
    ELSE IF IsNaN(x) \/ IsNaN(y) \/ x = Zero \/ y = Zero THEN NaN
    ELSE IF Sign(x[1]) * Sign(y[1]) > 0 THEN PInf ELSE NInf

Div(x, y) ==
    IF IsFinite(x) /\ IsFinite(y)
    THEN IF y[1] = 0
         THEN IF x[1] = 0 THEN NaN ELSE IF x[1] > 0 THEN PInf ELSE NInf
         ELSE LET s == Sign(y[1])
              IN  Mul(x, <<s * y[2], Abs(y[1]), -y[3]>>)
    ELSE IF IsNaN(x) \/ IsNaN(y) \/ (~IsFinite(x) /\ ~IsFinite(y)) THEN NaN
    ELSE IF IsFinite(x) THEN Zero
    ELSE IF Sign(x[1]) * Sign(y[1]) >= 0 THEN
            (IF x[1] > 0 THEN PInf ELSE NInf)
    ELSE (IF x[1] > 0 THEN NInf ELSE PInf)

Add(x, y) ==
    IF x = Zero THEN y
    ELSE IF y = Zero THEN x
    ELSE IF IsFinite(x) /\ IsFinite(y)
    THEN LET e == IF x[3] < y[3] THEN x[3] ELSE y[3]
             g == GCD(x[2], y[2])
         IN  Canon(x[1] * Pow10(x[3] - e) * (y[2] \div g)
                     + y[1] * Pow10(y[3] - e) * (x[2] \div g),
                   (x[2] \div g) * y[2], e)
    ELSE IF IsNaN(x) \/ IsNaN(y) THEN NaN
    ELSE IF ~IsFinite(x) /\ ~IsFinite(y) THEN (IF x = y THEN x ELSE NaN)
    ELSE IF IsFinite(x) THEN y ELSE x

Sub(x, y) == Add(x, Neg(y))

\* x < y, x > y as IEEE comparisons: false when either side is NaN.
Lt(x, y) ==
    /\ ~IsNaN(x) /\ ~IsNaN(y) /\ x # y
    /\ IF Sign(x[1]) # Sign(y[1]) THEN Sign(x[1]) < Sign(y[1])
       ELSE IF ~IsFinite(x) \/ ~IsFinite(y) THEN IsFinite(x) = (x[1] > 0)
       ELSE Sub(x, y)[1] < 0
Gt(x, y) == Lt(y, x)
Le(x, y) == ~IsNaN(x) /\ ~IsNaN(y) /\ ~Lt(y, x)
Ge0(x) == ~IsNaN(x) /\ x[1] >= 0

\* The largest r with r * r <= m.
RECURSIVE ISqrtBetween(_, _, _)
ISqrtBetween(m, lo, hi) ==
    IF lo = hi THEN lo
    ELSE LET mid == (lo + hi + 1) \div 2
         IN  IF mid * mid <= m THEN ISqrtBetween(m, mid, hi)
             ELSE ISqrtBetween(m, lo, mid - 1)

ISqrt(m) == ISqrtBetween(m, 0, IF m < 46340 THEN m ELSE 46340)

\* The decimal places a square root that is not rational is rounded to.
SqrtDigits == 3

\* np.sqrt: exact where the root is rational, else rounded down to
\* SqrtDigits decimal places (a float rounds it at its 53rd bit).
Sqrt(x) ==
    IF IsNaN(x) \/ x[1] < 0 THEN NaN
    ELSE IF ~IsFinite(x) THEN x
    ELSE LET rn == ISqrt(x[1])
             rd == ISqrt(x[2])
             s == x[3] + 2 * SqrtDigits
             m == IF s >= 0 THEN (x[1] * Pow10(s)) \div x[2]
                  ELSE x[1] \div (x[2] * Pow10(-s))
         IN  IF rn * rn = x[1] /\ rd * rd = x[2] /\ x[3] % 2 = 0
             THEN <<rn, rd, x[3] \div 2>>
             ELSE Canon(ISqrt(m), 1, -SqrtDigits)

\* np.maximum(a, b): the larger one, NaN if either is NaN.
Maximum(x, y) == IF IsNaN(x) \/ IsNaN(y) THEN NaN ELSE IF Lt(x, y) THEN y ELSE x

\* ndarray.sum() / np.sum: pairwise, 0.0 for the empty array.
RECURSIVE SumRange(_, _, _)
SumRange(a, lo, hi) ==
    IF lo > hi THEN Zero
    ELSE IF lo = hi THEN a[lo]
    ELSE LET mid == (lo + hi) \div 2
         IN  Add(SumRange(a, lo, mid), SumRange(a, mid + 1, hi))

Sum(a) == SumRange(a, 1, Len(a))

\* array (op) scalar and array (op) array, element by element.
MulS(a, s) == [i \in 1..Len(a) |-> Mul(a[i], s)]
DivS(a, s) == [i \in 1..Len(a) |-> Div(a[i], s)]
MulA(a, b) == [i \in 1..Len(a) |-> Mul(a[i], b[i])]

\* A sequence of integers as an array of floats. Wavelengths are whole
\* numbers of nm throughout and are kept as integers.
AsArray(xs) == [i \in 1..Len(xs) |-> Num(xs[i])]

-----------------------------------------------------------------------------
(* src/src/calculator.py                                                   *)

\* Physical constants: H = 6.6e-34 J s, C = 3e8 m/s.
H == Sci(66, -35)
C == Sci(3, 8)

GridMismatch == "Stimulus and receptor spectra must be on the same wavelength grid."

\* np.array_equal that compares the shapes only.
array_equal_shape(a, b) == Len(a) = Len(b)

\* np.array_equal(a, b): same shape and every element equal.
array_equal(a, b) ==
    /\ Len(a) = Len(b)
    /\ \A i \in 1..Len(a) : a[i] = b[i]

\* The integration with the collecting area divided out instead of multiplied in.
IntegrateDivided(photon_density, receptor_spectrum, collecting_area_um2) ==
    Div(Sum(MulA(photon_density, receptor_spectrum)), collecting_area_um2)

\* rate = np.sum(photon_density * receptor_spectrum) * collecting_area_um2
Integrate(photon_density, receptor_spectrum, collecting_area_um2) ==
    Mul(Sum(MulA(photon_density, receptor_spectrum)), collecting_area_um2)

\* The value a call returns, or the ValueError it raises.
Returned(v) == [raised |-> "", value |-> v]
Raised(msg) == [raised |-> "ValueError", msg |-> msg]

compute_photoisomerization_rate(power_nw, stimulus_wavelengths, stimulus_spectrum, receptor_wavelengths, receptor_spectrum, area_um2, collecting_area_um2) ==
    IF ~array_equal(stimulus_wavelengths, receptor_wavelengths)
    THEN Raised(GridMismatch)
    ELSE LET wavelengths == stimulus_wavelengths
             stim_norm == DivS(stimulus_spectrum, Sum(stimulus_spectrum))
             power_w == Mul(power_nw, Sci(1, -9))
             spectral_power == MulS(stim_norm, power_w)
             wavelengths_m == MulS(AsArray(wavelengths), Sci(1, -9))
             photon_flux == DivS(MulA(spectral_power, wavelengths_m), Mul(H, C))
             photon_density == DivS(photon_flux, area_um2)
             rate == Integrate(photon_density, receptor_spectrum,
                               collecting_area_um2)
         IN  Returned(rate)

-----------------------------------------------------------------------------
(* The rate computation as a function of its seven arguments.              *)

MaxVal == 2        \* spectrum values are drawn from 0..MaxVal
MaxPower == 2      \* power_nw is drawn from 1..MaxPower

\* area_um2 and collecting_area_um2 are drawn from these.
AreaSamples == {1, 2}

\* Wavelength arrays: empty, one point, and two-point grids that differ in
\* length or in one element from each other.
WavelengthArrays == {<<>>, <<500>>, <<200, 500>>, <<200, 720>>}

ValueArrays(n) == [1..n -> 0..MaxVal]

NoStore == [n \in {} |-> n]

\* No collecting_areas.json on disk (os.path.isfile is false).
NoJson == [exists |-> FALSE, text |-> <<>>]

Two == Num(2)

Rate(args) ==
    compute_photoisomerization_rate(args.power_nw, args.stimulus_wavelengths,
        args.stimulus_spectrum, args.receptor_wavelengths,
        args.receptor_spectrum, args.area_um2, args.collecting_area_um2)

InitRate ==
    /\ stimuli = NoStore
    /\ photoreceptors = NoStore
    /\ collecting_areas = NoJson
    /\ writers = NoStore
    /\ \E p \in 1..MaxPower, a \in AreaSamples, c \in AreaSamples,
          sw \in WavelengthArrays, rw \in WavelengthArrays :
         \E sv \in ValueArrays(Len(sw)), rv \in ValueArrays(Len(rw)) :
            call = [op |-> "rate_args",
                    args |-> [power_nw |-> Num(p),
                              stimulus_wavelengths |-> sw,
                              stimulus_spectrum |-> AsArray(sv),
                              receptor_wavelengths |-> rw,
                              receptor_spectrum |-> AsArray(rv),
                              area_um2 |-> Num(a),
                              collecting_area_um2 |-> Num(c)]]

\* A first call with the drawn arguments.
ComputeRate ==
    /\ call.op = "rate_args"
    /\ call' = [op |-> "rate", args |-> call.args, ret |-> Rate(call.args),
                doubled |-> "", before |-> Rate(call.args)]
    /\ UNCHANGED <<stimuli, others>>

\* The call repeated with power_nw doubled and every other argument as it was.
DoublePower ==
    /\ call.op = "rate"
    /\ ~Gt(call.args.power_nw, Num(MaxPower))
    /\ LET args2 == [call.args EXCEPT !.power_nw = Mul(Two, @)]
       IN  call' = [op |-> "rate", args |-> args2, ret |-> Rate(args2),
                    doubled |-> "power_nw", before |-> call.ret]
    /\ UNCHANGED <<stimuli, others>>

\* The call repeated with collecting_area_um2 doubled.
DoubleCollectingArea ==
    /\ call.op = "rate"
    /\ \E c \in AreaSamples : call.args.collecting_area_um2 = Num(c)
    /\ LET args2 == [call.args EXCEPT !.collecting_area_um2 = Mul(Two, @)]
       IN  call' = [op |-> "rate", args |-> args2, ret |-> Rate(args2),
                    doubled |-> "collecting_area_um2", before |-> call.ret]
    /\ UNCHANGED <<stimuli, others>>

NextRate == ComputeRate \/ DoublePower \/ DoubleCollectingArea

SpecRate == InitRate /\ [][NextRate]_vars

-----------------------------------------------------------------------------
(* src/src/spectrum_utils.py: the grid and the resampler                   *)

START_WAVELENGTH == 200
END_WAVELENGTH == 720
STEP_WAVELENGTH == 1

\* np.arange(start, stop, step, dtype=float) for whole numbers, step > 0.
arange(start, stop, step) ==
    LET n == IF stop > start THEN (stop - start + step - 1) \div step ELSE 0
    IN  [i \in 1..n |-> start + (i - 1) * step]

\* The grid cut one step short: np.arange(START, END, STEP).
standard_wavelengths_open ==
    arange(START_WAVELENGTH, END_WAVELENGTH, STEP_WAVELENGTH)

standard_wavelengths ==
    arange(START_WAVELENGTH, END_WAVELENGTH + STEP_WAVELENGTH, STEP_WAVELENGTH)

\* An optional argument: None, or Some(v).
None == <<>>
Some(v) == <<v>>
OrDefault(arg, default) == IF arg = None THEN default ELSE arg[1]

\* fill_value left at interp1d's default.
FillValueDefault == NaN

\* fill_value=0.0
FillValue == Zero

\* What interp1d's constructor raises: "" when it accepts x and y.
interp1d_init(x, y) ==
    IF Len(x) # Len(y)
    THEN "x and y arrays must be equal in length along interpolation axis."
    ELSE IF Len(x) < 1 THEN "x and y arrays must have at least 1 entries"
    ELSE ""

\* The knot at or left of x_new (x strictly increasing, x[1] <= x_new).
Locate(x, x_new) ==
    CHOOSE j \in 1..Len(x) : x[j] <= x_new /\ (j = Len(x) \/ x[j + 1] > x_new)

\* interp1d(x, y, kind='linear', bounds_error=False, fill_value=0.0)(x_new):
\* the fill value outside [x[1], x[-1]], the knot's value at a knot, the
\* line through the two neighbouring knots in between.
interp1d_call(x, y, x_new) ==
    IF x_new < x[1] \/ x_new > x[Len(x)] THEN FillValue
    ELSE LET j == Locate(x, x_new)
         IN  IF j = Len(x) \/ x[j] = x_new THEN y[j]
             ELSE LET slope == Div(Sub(y[j + 1], y[j]), Num(x[j + 1] - x[j]))
                  IN  Add(Mul(slope, Num(x_new - x[j])), y[j])

\* The target grid with `end` left out.
TargetGridExclusive(start, end, step) == arange(start, end, step)

\* new_wavelengths = np.arange(start, end + step, step, dtype=float)
TargetGrid(start, end, step) == arange(start, end + step, step)

resample_spectrum(wavelengths, values, start, end, step) ==
    LET start_ == OrDefault(start, START_WAVELENGTH)
        end_ == OrDefault(end, END_WAVELENGTH)
        step_ == OrDefault(step, STEP_WAVELENGTH)
        refused == interp1d_init(wavelengths, values)
        new_wavelengths == TargetGrid(start_, end_, step_)
        new_values == [i \in 1..Len(new_wavelengths) |->
                         Maximum(interp1d_call(wavelengths, values, new_wavelengths[i]),
                                 Zero)]
    IN  IF refused # "" THEN Raised(refused)
        ELSE Returned([wavelengths |-> new_wavelengths, values |-> new_values])

-----------------------------------------------------------------------------
(* The resampler as a function of its five arguments.                      *)

MaxSrcLen == 3     \* value arrays of 0..MaxSrcLen entries

\* Source values, negative readings included.
SourceValues == (0 - 1)..MaxVal

\* Strictly increasing source wavelength arrays.
SourceWavelengths ==
    {<<>>, <<400>>, <<400, 402>>, <<400, 500>>, <<400, 402, 500>>, <<300, 600>>}

\* Explicit target grids <<start, end, step>>: 398..404 by 1, 380..520 by 20.
SmallGrids == {<<398, 404, 1>>, <<380, 520, 20>>}

\* Values given at every wavelength of the standard grid.
OnGridValues(base, amp, period) ==
    [i \in 1..Len(standard_wavelengths) |-> Num(base + amp * ((i - 1) % period))]

ResampleArgs(w, v, start, end, step) ==
    [wavelengths |-> w, values |-> v, start |-> start, end |-> end, step |-> step]

InitResample ==
    /\ stimuli = NoStore
    /\ photoreceptors = NoStore
    /\ collecting_areas = NoJson
    /\ writers = NoStore
    /\ \/ \E w \in SourceWavelengths, n \in 0..MaxSrcLen, g \in SmallGrids :
            \E v \in [1..n -> SourceValues] :
               call = [op |-> "resample_args",
                       args |-> ResampleArgs(w, AsArray(v), Some(g[1]), Some(g[2]),
                                             Some(g[3]))]
       \/ \E w \in {<<500>>, <<400, 500>>} :
            \E v \in [1..Len(w) -> SourceValues] :
               call = [op |-> "resample_args",
                       args |-> ResampleArgs(w, AsArray(v), None, None, None)]
       \/ \E base \in SourceValues, amp \in 0..1, period \in 2..3 :
            call = [op |-> "resample_args",
                    args |-> ResampleArgs(standard_wavelengths,
                                          OnGridValues(base, amp, period),
                                          None, None, None)]

Resampled(args) ==
    resample_spectrum(args.wavelengths, args.values, args.start, args.end, args.step)

Resample ==
    /\ call.op = "resample_args"
    /\ call' = [op |-> "resample", args |-> call.args, ret |-> Resampled(call.args),
                again |-> FALSE]
    /\ UNCHANGED <<stimuli, others>>

\* A spectrum that came out of the resampler is resampled again.
ResampleAgain ==
    /\ call.op = "resample"
    /\ ~call.again
    /\ call.ret.raised = ""
    /\ LET args2 == ResampleArgs(call.ret.value.wavelengths, call.ret.value.values,
                                 call.args.start, call.args.end, call.args.step)
       IN  call' = [op |-> "resample", args |-> args2, ret |-> Resampled(args2),
                    again |-> TRUE]
    /\ UNCHANGED <<stimuli, others>>

NextResample == Resample \/ ResampleAgain

SpecResample == InitResample /\ [][NextResample]_vars

-----------------------------------------------------------------------------
(* src/src/govardovskii.py                                                 *)
(* The template is kept in closed form: the parameter set the regime       *)
(* selects and the band formulas it enters, not the evaluated curve.       *)

\* _alpha_band: S_alpha = 1 / (exp(A(a-x)) + exp(B(b-x)) + exp(C(c-x)) + D),
\* x = lambda_max / wavelength.
alpha_band(wavelengths, lambda_max) ==
    IF Gt(lambda_max, Num(400))
    THEN [A |-> Sci(697, -1),
          a |-> [base |-> Sci(8795, -4), gain |-> Sci(459, -4),
                 centre |-> Num(300), width |-> Num(11940)],
          B |-> Sci(280, -1), b |-> Sci(922, -3),
          C |-> Sci(-149, -1), c |-> Sci(1104, -3), D |-> Sci(674, -3),
          lambda_max |-> lambda_max, at |-> wavelengths]
    ELSE [A |-> Sci(627, -1), a |-> Sci(880, -3),
          B |-> Sci(165, -1), b |-> Sci(860, -3),
          C |-> Sci(-100, -1), c |-> Sci(1100, -3), D |-> Sci(680, -3),
          lambda_max |-> lambda_max, at |-> wavelengths]

\* _beta_band: zeros for lambda_max <= 400, else
\* A_beta * exp(-((wavelength - lambda_max_beta) / b_beta)^2).
beta_band(wavelengths, lambda_max) ==
    IF Le(lambda_max, Num(400))
    THEN [zeros |-> TRUE, at |-> wavelengths]
    ELSE [zeros |-> FALSE,
          lambda_max_beta |-> Add(Sci(1890, -1), Mul(Sci(315, -3), lambda_max)),
          b_beta |-> Add(Sci(-405, -1), Mul(Sci(195, -3), lambda_max)),
          A_beta |-> Sci(26, -2), at |-> wavelengths]

\* 200 < lambda_max < 720
InRangeStrict(lambda_max) == Lt(Num(200), lambda_max) /\ Lt(lambda_max, Num(720))

\* 200 <= lambda_max <= 720
InRange(lambda_max) == Le(Num(200), lambda_max) /\ Le(lambda_max, Num(720))

\* govardovskii_nomogram(lambda_max) on the standard grid. alpha > 0
\* everywhere, so the peak is positive and the sum is divided by it.
govardovskii_nomogram(lambda_max) ==
    IF ~InRange(lambda_max)
    THEN Raised("lambda_max must be between 200 and 720 nm")
    ELSE LET wavelengths == standard_wavelengths
             alpha == alpha_band(wavelengths, lambda_max)
             beta == beta_band(wavelengths, lambda_max)
         IN  Returned([wavelengths |-> wavelengths,
                       sensitivity |-> [alpha |-> alpha, beta |-> beta,
                                        peak_normalized |-> TRUE]])

-----------------------------------------------------------------------------
(* The nomogram as a function of lambda_max.                               *)

Margin == 2    \* lambda_max is drawn from 200 - Margin to 720 + Margin nm

\* Half-nm steps across the accepted range and Margin beyond it, and the
\* floats that are no wavelength at all.
LambdaSamples ==
    { Canon(k, 2, 0) : k \in (2 * (START_WAVELENGTH - Margin))..(2 * (END_WAVELENGTH + Margin)) }
        \cup {NaN, PInf, NInf}

InitNomogram ==
    /\ stimuli = NoStore
    /\ photoreceptors = NoStore
    /\ collecting_areas = NoJson
    /\ writers = NoStore
    /\ \E l \in LambdaSamples : call = [op |-> "nomogram_args", lambda_max |-> l]

Nomogram ==
    /\ call.op = "nomogram_args"
    /\ call' = [op |-> "nomogram", lambda_max |-> call.lambda_max,
                ret |-> govardovskii_nomogram(call.lambda_max)]
    /\ UNCHANGED <<stimuli, others>>

NextNomogram == Nomogram

SpecNomogram == InitNomogram /\ [][NextNomogram]_vars

-----------------------------------------------------------------------------
(* src/src/importer.py                                                     *)
(* A raw file is its parsed rows <<wavelength, value>>.                    *)

NoFile == [wavelengths |-> <<>>, values |-> <<>>, exists |-> FALSE]
File(wl, vals) == [wavelengths |-> wl, values |-> vals, exists |-> TRUE]

Column(data, c) == [i \in 1..Len(data) |-> data[i][c]]

Min(S) == CHOOSE m \in S : \A n \in S : m <= n

\* A finite set of integers as an ascending sequence.
RECURSIVE Ascending(_)
Ascending(S) == IF S = {} THEN <<>> ELSE <<Min(S)>> \o Ascending(S \ {Min(S)})

\* np.unique(wavelengths): the distinct wavelengths, sorted.
unique(wavelengths) == Ascending({wavelengths[i] : i \in 1..Len(wavelengths)})

\* Sum of values[i] over the rows i in I.
RECURSIVE SumOver(_, _)
SumOver(values, I) ==
    IF I = {} THEN Zero
    ELSE LET i == Min(I) IN Add(values[i], SumOver(values, I \ {i}))

\* The merged values with the division by the group size left out.
MergedValuesSum(wavelengths, values, unique_wl) ==
    [idx \in 1..Len(unique_wl) |->
        SumOver(values, {i \in 1..Len(wavelengths) : wavelengths[i] = unique_wl[idx]})]

\* avg_vals / counts: per distinct wavelength, the sum of the values of its
\* rows over their number.
MergedValues(wavelengths, values, unique_wl) ==
    [idx \in 1..Len(unique_wl) |->
        LET rows == {i \in 1..Len(wavelengths) : wavelengths[i] = unique_wl[idx]}
        IN  Div(SumOver(values, rows), Num(Cardinality(rows)))]

MergedWarning(n) == <<"Merged", n, "duplicate wavelength entries by averaging.">>
CoverageWarning(range) ==
    <<"Source data covers only", range,
      "nm. Results may be unreliable for wavelengths outside the source range.">>

\* The monotonicity check made on the raw order, before any merge.
IsIncreasingRaw(raw, wavelengths) ==
    \A i \in 1..(Len(raw) - 1) : raw[i + 1] - raw[i] > 0

\* np.all(np.diff(wavelengths) > 0), on the wavelengths left by the merge
IsIncreasing(raw, wavelengths) ==
    \A i \in 1..(Len(wavelengths) - 1) : wavelengths[i + 1] - wavelengths[i] > 0

\* np.sort(values): ascending, by insertion.
RECURSIVE Insert(_, _)
Insert(sorted, v) ==
    IF sorted = <<>> THEN <<v>>
    ELSE IF Lt(v, Head(sorted)) THEN <<v>> \o sorted
    ELSE <<Head(sorted)>> \o Insert(Tail(sorted), v)

RECURSIVE SortFrom(_, _)
SortFrom(values, i) ==
    IF i > Len(values) THEN <<>> ELSE Insert(SortFrom(values, i + 1), values[i])

sort(values) == SortFrom(values, 1)

Mean(a) == Div(Sum(a), Num(Len(a)))

\* ndarray.std(): the root of the mean squared deviation from the mean.
Std(a) ==
    LET m == Mean(a)
        dev == [i \in 1..Len(a) |-> Mul(Sub(a[i], m), Sub(a[i], m))]
    IN  Sqrt(Mean(dev))

RECURSIVE MaxFrom(_, _)
MaxFrom(a, i) ==
    IF i = Len(a) THEN a[i] ELSE Maximum(a[i], MaxFrom(a, i + 1))

\* ndarray.max()
Max(a) == MaxFrom(a, 1)

\* The noise sample with a minimum of 1 value instead of 10.
n_noise_one(sorted_vals) ==
    LET quarter == Len(sorted_vals) \div 4
    IN  IF quarter > 1 THEN quarter ELSE 1

\* n_noise = max(int(0.25 * len(sorted_vals)), 10)
n_noise(sorted_vals) ==
    LET quarter == Len(sorted_vals) \div 4
    IN  IF quarter > 10 THEN quarter ELSE 10

\* noise_samples = sorted_vals[:n_noise]: a slice stops at the end of the
\* array.
noise_samples(values) ==
    LET sorted_vals == sort(values)
        n == n_noise(sorted_vals)
    IN  SubSeq(sorted_vals, 1, IF n < Len(sorted_vals) THEN n ELSE Len(sorted_vals))

\* baseline = noise_samples.mean() + 3 * noise_samples.std()
baseline(values) ==
    Add(Mean(noise_samples(values)), Mul(Num(3), Std(noise_samples(values))))

\* Baseline correction: the lowest quarter of the values, at least 10 of
\* them, is the noise sample; mean + 3 std of it is subtracted, negatives
\* are clamped to 0 and what is left below 1% of the peak is zeroed.
BaselineCorrected(values) ==
    LET floor == baseline(values)
        clamped == [i \in 1..Len(values) |-> Maximum(Sub(values[i], floor), Zero)]
        peak == Max(clamped)
    IN  IF Gt(peak, Zero)
        THEN [i \in 1..Len(values) |->
                 IF Lt(clamped[i], Mul(Sci(1, -2), peak)) THEN Zero ELSE clamped[i]]
        ELSE clamped

\* The normalization applied without looking at the sum.
NormalizedUnguarded(new_vals) == DivS(new_vals, Sum(new_vals))

\* total = new_vals.sum(); if total > 0: new_vals = new_vals / total
Normalized(new_vals) ==
    LET total == Sum(new_vals)
    IN  IF Gt(total, Zero) THEN DivS(new_vals, total) ELSE new_vals

\* np.loadtxt(...).ndim: two or more rows of two columns load as a 2-D
\* array, a single row or no row at all as a 1-D one.
ndim(data) == IF Len(data) >= 2 THEN 2 ELSE 1

\* import_stimulus_spectrum(filepath, name), filepath holding the rows
\* `data`: what it returns or raises, the file it writes (NoFile when it
\* raises before save_spectrum_csv) and the wavelengths and values it holds
\* after the duplicate merge.
import_stimulus_spectrum(data, name) ==
    LET raw_wl == Column(data, 1)
        raw_vals == AsArray(Column(data, 2))
        unique_wl == unique(raw_wl)
        merge == Len(unique_wl) < Len(raw_wl)
        wavelengths == IF merge THEN unique_wl ELSE raw_wl
        values == IF merge THEN MergedValues(raw_wl, raw_vals, unique_wl) ELSE raw_vals
        warnings1 == IF merge THEN <<MergedWarning(Len(data) - Len(unique_wl))>> ELSE <<>>
        source_range == wavelengths[Len(wavelengths)] - wavelengths[1]
        warnings2 == IF source_range < 100
                     THEN Append(warnings1, CoverageWarning(source_range))
                     ELSE warnings1
        resampled == resample_spectrum(wavelengths, BaselineCorrected(values),
                                       None, None, None)
        merged == [wavelengths |-> wavelengths, values |-> values]
        unmerged == [wavelengths |-> <<>>, values |-> <<>>]
    IN  IF ndim(data) # 2
        THEN [ret |-> Raised("Expected at least 2 columns"),
              written |-> NoFile, merged |-> unmerged]
        ELSE IF Len(data) < 2
        THEN [ret |-> Raised("File must contain at least 2 data points."),
              written |-> NoFile, merged |-> unmerged]
        ELSE IF ~IsIncreasing(raw_wl, wavelengths)
        THEN [ret |-> Raised("Wavelength column must be monotonically increasing."),
              written |-> NoFile, merged |-> merged]
        ELSE IF resampled.raised # ""
        THEN [ret |-> resampled, written |-> NoFile, merged |-> merged]
        ELSE [ret |-> Returned([output_path |-> name, warnings |-> warnings2]),
              written |-> File(resampled.value.wavelengths,
                               Normalized(resampled.value.values)),
              merged |-> merged]

-----------------------------------------------------------------------------
(* The application: the stimulus store and the imports made into it.       *)

MaxRows == 3       \* short raw files have 0..MaxRows rows
MaxNoisy == 3      \* long raw files have 0..MaxNoisy raised readings

StimulusNames == {"led"}

\* Short files: every order of the wavelengths 399..401, repeats included,
\* with readings rising or falling along the rows.
ShortFiles ==
    UNION { { [i \in 1..n |-> <<w[i], IF rising THEN 2 * i - 1 ELSE 2 * (n - i) + 1>>] :
                w \in [1..n -> 399..401], rising \in BOOLEAN } : n \in 0..MaxRows }

\* Long files: n rows from 400 nm on, `spacing` nm apart, reading 0 with a
\* peak on the middle row and a reading of 2 on the first `noisy` rows;
\* `repeat` appends the peak row a second time, out of order.
LongFile(n, spacing, noisy, peak, repeat) ==
    LET mid == n \div 2 + 1
        rows == [i \in 1..n |->
                   <<400 + (i - 1) * spacing,
                     IF i = mid THEN peak ELSE IF i <= noisy THEN 2 ELSE 0>>]
    IN  IF repeat THEN Append(rows, rows[mid]) ELSE rows

LongFiles ==
    { LongFile(n, spacing, noisy, peak, repeat) :
        n \in {11, 12}, spacing \in {1, 10}, noisy \in 0..MaxNoisy,
        peak \in {3, 400}, repeat \in BOOLEAN }

\* Files of at most 10 rows with a peak of 3 or 40 among readings of 0
\* and 2; with `repeat` the peak's wavelength comes twice.
FewFiles ==
    { LongFile(n, 10, noisy, peak, repeat) :
        n \in {4, 5, 8, 10}, noisy \in 0..MaxNoisy, peak \in {3, 40}, repeat \in BOOLEAN }

RawFiles == ShortFiles \cup LongFiles \cup FewFiles

\* Every raw file's import, worked out once.
Imported == [data \in RawFiles |-> import_stimulus_spectrum(data, "led")]

Init ==
    /\ stimuli = [n \in StimulusNames |-> NoFile]
    /\ photoreceptors = NoStore
    /\ collecting_areas = NoJson
    /\ writers = NoStore
    /\ call = [op |-> "start"]

\* POST /api/import with a file of rows `data` and the name `name`.
Import(data, name) ==
    LET done == Imported[data]
    IN  /\ call' = [op |-> "import", data |-> data, name |-> name,
                    ret |-> done.ret, merged |-> done.merged]
        /\ stimuli' = IF done.ret.raised = "" THEN [stimuli EXCEPT ![name] = done.written]
                      ELSE stimuli
        /\ UNCHANGED others

Next == \E data \in RawFiles, name \in StimulusNames : Import(data, name)

Spec == Init /\ [][Next]_vars

-----------------------------------------------------------------------------
(* src/src/spectrum_utils.py: spectra/collecting_areas.json                *)
(* The file is kept as its characters. A mapping (a Python dict, which     *)
(* keeps insertion order) is a sequence of <<name, value>> pairs.          *)

ReceptorNames == {"rod", "cone"}

\* The characters of a receptor name.
Chars(name) ==
    CASE name = "rod" -> <<"r", "o", "d">>
      [] name = "cone" -> <<"c", "o", "n", "e">>

DigitChars == <<"0", "1", "2", "3", "4", "5", "6", "7", "8", "9">>

\* The decimal digits of a natural number.
RECURSIVE Digits(_)
Digits(n) ==
    IF n < 10 THEN <<DigitChars[n + 1]>>
    ELSE Digits(n \div 10) \o <<DigitChars[(n % 10) + 1]>>

\* float.__repr__ as json.dump writes it (allow_nan is left on), for the
\* whole numbers and the specials.
float_repr(v) ==
    CASE IsNaN(v) -> <<"N", "a", "N">>
      [] v = PInf -> <<"I", "n", "f", "i", "n", "i", "t", "y">>
      [] v = NInf -> <<"-", "I", "n", "f", "i", "n", "i", "t", "y">>
      [] OTHER ->
            LET whole == Abs(v[1]) * Pow10(v[3])
            IN  (IF v[1] < 0 THEN <<"-">> ELSE <<>>) \o Digits(whole) \o <<".", "0">>

\* One "name": value line at indent=4.
Item(pair) ==
    <<" ", " ", " ", " ", "\"">> \o Chars(pair[1]) \o <<"\"", ":", " ">> \o float_repr(pair[2])

RECURSIVE Items(_)
Items(data) ==
    IF Len(data) = 1 THEN Item(data[1])
    ELSE Item(data[1]) \o <<",", "\n">> \o Items(Tail(data))

\* json.dump(data, f, indent=4)
json_dump(data) ==
    IF data = <<>> THEN <<"{", "}">>
    ELSE <<"{", "\n">> \o Items(data) \o <<"\n", "}">>

\* data[name] = area_um2
SetItem(data, name, area_um2) ==
    IF \E i \in DOMAIN data : data[i][1] = name
    THEN [i \in DOMAIN data |-> IF data[i][1] = name THEN <<name, area_um2>> ELSE data[i]]
    ELSE Append(data, <<name, area_um2>>)

\* data.get(name)
GetItem(data, name) ==
    IF \E i \in DOMAIN data : data[i][1] = name
    THEN Some((CHOOSE p \in {data[i] : i \in DOMAIN data} : p[1] = name)[2])
    ELSE None

MaxArea == 10    \* collecting areas are drawn from -1 to MaxArea um^2

\* The collecting areas that requests carry: negative, zero, one digit, two.
AreaNumbers == {-1, 0, 2, MaxArea}

\* Every mapping the file can hold: names in either order, each once.
Dicts ==
    {<<>>}
        \cup { <<<<n, Num(a)>>>> : n \in ReceptorNames, a \in AreaNumbers }
        \cup UNION { { <<<<n, Num(a)>>, <<m, Num(b)>>>> :
                         m \in ReceptorNames \ {n}, a \in AreaNumbers, b \in AreaNumbers } :
                     n \in ReceptorNames }

IsWhitespace(text) == \A i \in DOMAIN text : text[i] \in {" ", "\n"}

\* The dump of every mapping, worked out once.
Dumped == [data \in Dicts |-> json_dump(data)]

\* text is the dump of data followed by nothing but whitespace.
Parses(text, data) ==
    LET dumped == Dumped[data]
    IN  /\ Len(text) >= Len(dumped)
        /\ SubSeq(text, 1, Len(dumped)) = dumped
        /\ IsWhitespace(SubSeq(text, Len(dumped) + 1, Len(text)))

\* json.load(f): the mapping the text denotes, or JSONDecodeError (a
\* ValueError) when the text is empty, cut short or followed by more text.
json_load(text) ==
    IF \E data \in Dicts : Parses(text, data)
    THEN Returned(CHOOSE data \in Dicts : Parses(text, data))
    ELSE Raised("JSONDecodeError")

JsonFile(text) == [exists |-> TRUE, text |-> text]

\* load_collecting_areas(), and the read at the head of save_collecting_area.
load_collecting_areas(file) ==
    IF ~file.exists THEN Returned(<<>>) ELSE json_load(file.text)

\* open(path, 'w'): the file is created or cut to nothing.
OpenForWriting(file) == JsonFile(<<>>)

\* The buffered json.dump and '\n' reach the disk on close, at the offset
\* of this handle, which is 0; what lies beyond them on disk stays.
WriteOnClose(file, data) ==
    LET written == json_dump(data) \o <<"\n">>
    IN  JsonFile(written \o SubSeq(file.text, Len(written) + 1, Len(file.text)))

\* save_collecting_area(name, area_um2) run without interruption.
save_collecting_area(file, name, area_um2) ==
    LET loaded == load_collecting_areas(file)
    IN  IF loaded.raised # "" THEN [ret |-> loaded, file |-> file]
        ELSE [ret |-> Returned(None),
              file |-> WriteOnClose(OpenForWriting(file),
                                    SetItem(loaded.value, name, area_um2))]

-----------------------------------------------------------------------------
(* src/src/app.py: the JSON request handlers                               *)

\* A key of the request body: not there, null, a number or a string.
Absent == [kind |-> "absent"]
Null == [kind |-> "null"]
Number(v) == [kind |-> "number", value |-> v]
String(text) == [kind |-> "string", text |-> text]

\* An exception other than the ValueError of Raised.
RaisedAs(kind, msg) == [raised |-> kind, msg |-> msg]

\* The strings that float() reads as a number.
FloatOfText == [text \in {"2", "nan"} |-> IF text = "2" THEN Num(2) ELSE NaN]

\* float(data[key])
float_of_key(data, key) ==
    LET x == data[key]
    IN  CASE x.kind = "absent" -> RaisedAs("KeyError", key)
          [] x.kind = "null" -> RaisedAs("TypeError", "float() argument must be a string or a real number")
          [] x.kind = "number" -> Returned(x.value)
          [] x.kind = "string" ->
                IF x.text \in DOMAIN FloatOfText THEN Returned(FloatOfText[x.text])
                ELSE Raised("could not convert string to float")

\* str.strip() on the names in use.
strip(text) == IF text = " " THEN "" ELSE IF text = " rod" THEN "rod" ELSE text

\* Every exception maps to 400.
StatusBadRequest(raised) == 400

\* except (KeyError, ValueError, TypeError): 400; except FileNotFoundError: 404
StatusOf(raised) == IF raised = "FileNotFoundError" THEN 404 ELSE 400

Failed(status, msg) == [status |-> status, error |-> msg]
Succeeded(body) == [status |-> 200, body |-> body]

\* load_spectrum_csv(filepath) on a store: open() raises FileNotFoundError.
load_spectrum_csv(store, name) ==
    IF name \in DOMAIN store /\ store[name].exists THEN Returned(store[name])
    ELSE RaisedAs("FileNotFoundError", name)

\* stimulus_name + '.csv': a name that is no string is a TypeError.
path_join(name) ==
    IF name.kind = "string" THEN Returned(name.text)
    ELSE RaisedAs("TypeError", "unsupported operand type(s) for +")

\* compute_from_names on the two stores. A generated receptor curve is in
\* closed form, so past the grid check the rate is left as the call of
\* compute_photoisomerization_rate on its arguments, and the plotted
\* curves of the result by name.
compute_from_names(power_nw, stimulus_name, receptor_name, area_um2, collecting_area_um2) ==
    LET stim_path == path_join(stimulus_name)
        rec_path == path_join(receptor_name)
        stim == load_spectrum_csv(stimuli, stim_path.value)
        rec == load_spectrum_csv(photoreceptors, rec_path.value)
    IN  IF stim_path.raised # "" THEN stim_path
        ELSE IF rec_path.raised # "" THEN rec_path
        ELSE IF stim.raised # "" THEN stim
        ELSE IF rec.raised # "" THEN rec
        ELSE IF ~array_equal(stim.value.wavelengths, rec.value.wavelengths)
        THEN Raised(GridMismatch)
        ELSE Returned([rate |-> [power_nw |-> power_nw,
                                 stimulus_spectrum |-> stim_path.value,
                                 receptor_spectrum |-> rec_path.value,
                                 area_um2 |-> area_um2,
                                 collecting_area_um2 |-> collecting_area_um2]])

\* POST /api/calculate with the JSON body `data`.
api_calculate(data) ==
    LET power_nw == float_of_key(data, "power_nw")
        area_um2 == float_of_key(data, "area_um2")
        collecting_area_um2 == float_of_key(data, "collecting_area_um2")
        result == compute_from_names(power_nw.value, data.stimulus, data.receptor,
                                     area_um2.value, collecting_area_um2.value)
    IN  IF power_nw.raised # "" THEN Failed(StatusOf(power_nw.raised), power_nw.msg)
        ELSE IF data.stimulus = Absent THEN Failed(StatusOf("KeyError"), "stimulus")
        ELSE IF data.receptor = Absent THEN Failed(StatusOf("KeyError"), "receptor")
        ELSE IF area_um2.raised # "" THEN Failed(StatusOf(area_um2.raised), area_um2.msg)
        ELSE IF collecting_area_um2.raised # ""
        THEN Failed(StatusOf(collecting_area_um2.raised), collecting_area_um2.msg)
        ELSE IF Le(power_nw.value, Zero) THEN Failed(400, "Power must be positive.")
        ELSE IF Le(area_um2.value, Zero) THEN Failed(400, "Stimulus area must be positive.")
        ELSE IF Le(collecting_area_um2.value, Zero)
        THEN Failed(400, "Collecting area must be positive.")
        ELSE IF result.raised # "" THEN Failed(StatusOf(result.raised), result.msg)
        ELSE Succeeded(result.value)

\* POST /api/generate with the JSON body `data`: the response and the two
\* files as the handler leaves them. The spectrum is saved before the
\* collecting area is converted and saved.
api_generate_photoreceptor(data) ==
    LET lambda_max == float_of_key(data, "lambda_max")
        name == IF data.name = Absent THEN "" ELSE strip(data.name.text)
        collecting_area == IF data.collecting_area = Absent THEN Null
                           ELSE data.collecting_area
        nomogram == govardovskii_nomogram(lambda_max.value)
        saved == [photoreceptors EXCEPT
                    ![name] = File(nomogram.value.wavelengths, nomogram.value.sensitivity)]
        area_um2 == float_of_key([collecting_area |-> collecting_area], "collecting_area")
        areas == save_collecting_area(collecting_areas, name, area_um2.value)
        unchanged == [photoreceptors |-> photoreceptors, collecting_areas |-> collecting_areas]
    IN  IF lambda_max.raised # ""
        THEN [response |-> Failed(400, lambda_max.msg)] @@ unchanged
        ELSE IF name = ""
        THEN [response |-> Failed(400, "Spectrum name is required.")] @@ unchanged
        ELSE IF nomogram.raised # ""
        THEN [response |-> Failed(400, nomogram.msg)] @@ unchanged
        ELSE IF collecting_area = Null
        THEN [response |-> Succeeded([path |-> name]), photoreceptors |-> saved,
              collecting_areas |-> collecting_areas]
        ELSE IF area_um2.raised # ""
        THEN [response |-> Failed(400, area_um2.msg), photoreceptors |-> saved,
              collecting_areas |-> collecting_areas]
        ELSE IF areas.ret.raised # ""
        THEN [response |-> Failed(400, areas.ret.msg), photoreceptors |-> saved,
              collecting_areas |-> collecting_areas]
        ELSE [response |-> Succeeded([path |-> name]), photoreceptors |-> saved,
              collecting_areas |-> areas.file]

-----------------------------------------------------------------------------
(* The handlers called one after another on one store.                     *)

\* Uploads: an empty file (refused), three rows (stored all zero) and
\* twelve rows with a peak (stored normalized).
AppFiles ==
    { <<>>, [i \in 1..3 |-> <<398 + i, 2 * i - 1>>], LongFile(12, 1, 0, 400, FALSE) }

\* What a numeric key of a request can hold; Number(Num(2)) is the valid one.
NumericFields ==
    { Absent, String("abc"), Number(NaN), Number(Num(0)), Number(Num(-1)), Number(Num(2)) }

\* Calculation requests: at most one numeric key away from the valid value,
\* each spectrum named by a name that can be in the store or by one that
\* never is.
CalculateRequests ==
    LET valid == Number(Num(2))
        numerics == { t \in NumericFields \X NumericFields \X NumericFields :
                        Cardinality({i \in 1..3 : t[i] # valid}) <= 1 }
    IN  { [power_nw |-> t[1], stimulus |-> String(s), receptor |-> String(r),
           area_um2 |-> t[2], collecting_area_um2 |-> t[3]] :
            t \in numerics, s \in {"led", "none"}, r \in {"rod", "none"} }

\* Generation requests.
GenerateRequests ==
    { [lambda_max |-> l, name |-> n, collecting_area |-> c] :
        l \in {Absent, String("abc"), Number(Num(START_WAVELENGTH - 1)), Number(Num(500))},
        n \in {Absent, String(" "), String(" rod")},
        c \in {Absent, String("abc"), Number(Num(-1)), Number(Num(2))} }

InitApp ==
    /\ stimuli = [n \in StimulusNames |-> NoFile]
    /\ photoreceptors = [n \in ReceptorNames |-> NoFile]
    /\ collecting_areas = NoJson
    /\ writers = NoStore
    /\ call = [op |-> "start"]

Generate(data) ==
    LET done == api_generate_photoreceptor(data)
    IN  /\ call' = [op |-> "generate", data |-> data, response |-> done.response]
        /\ photoreceptors' = done.photoreceptors
        /\ collecting_areas' = done.collecting_areas
        /\ UNCHANGED <<stimuli, writers>>

Calculate(data) ==
    /\ call' = [op |-> "calculate", data |-> data, response |-> api_calculate(data)]
    /\ UNCHANGED <<stimuli, others>>

NextApp ==
    \/ \E data \in AppFiles, name \in StimulusNames : Import(data, name)
    \/ \E data \in GenerateRequests : Generate(data)
    \/ \E data \in CalculateRequests : Calculate(data)

SpecApp == InitApp /\ [][NextApp]_vars

-----------------------------------------------------------------------------
(* save_collecting_area called from several requests at once. Flask serves *)
(* each request on its own thread and nothing locks the file, so the three *)
(* file operations of a call interleave with those of the others.          *)

MaxSaves == 3    \* calls of save_collecting_area, one per process

Savers == 1..MaxSaves

\* The areas the calls save: one digit and two, so that the dumps differ
\* in length.
SaveAreas == {2, MaxArea}

InitAreas ==
    /\ stimuli = NoStore
    /\ photoreceptors = NoStore
    /\ collecting_areas = NoJson
    /\ writers = [w \in Savers |-> [pc |-> "idle", name |-> "", area_um2 |-> Zero, data |-> <<>>]]
    /\ call = [op |-> "start", process |-> 0, last |-> 0]

\* Lines 150-155: read the file (or take {}), set data[name].
SaveLoad(w, name, area_um2) ==
    /\ writers[w].pc = "idle"
    /\ LET loaded == load_collecting_areas(collecting_areas)
       IN  writers' = [writers EXCEPT ![w] =
                IF loaded.raised # ""
                THEN [pc |-> "raised", name |-> name, area_um2 |-> area_um2, data |-> <<>>]
                ELSE [pc |-> "loaded", name |-> name, area_um2 |-> area_um2,
                      data |-> SetItem(loaded.value, name, area_um2)]]
    /\ call' = [op |-> "load", process |-> w, last |-> call.last]
    /\ UNCHANGED <<stimuli, photoreceptors, collecting_areas>>

\* Line 156: open(path, 'w').
SaveOpen(w) ==
    /\ writers[w].pc = "loaded"
    /\ collecting_areas' = OpenForWriting(collecting_areas)
    /\ writers' = [writers EXCEPT ![w].pc = "opened"]
    /\ call' = [op |-> "open", process |-> w, last |-> call.last]
    /\ UNCHANGED <<stimuli, photoreceptors>>

\* Lines 157-158 and the end of the with block: the text reaches the disk.
SaveClose(w) ==
    /\ writers[w].pc = "opened"
    /\ collecting_areas' = WriteOnClose(collecting_areas, writers[w].data)
    /\ writers' = [writers EXCEPT ![w].pc = "returned"]
    /\ call' = [op |-> "close", process |-> w, last |-> w]
    /\ UNCHANGED <<stimuli, photoreceptors>>

\* The process is killed between its read and its close.
Interrupt(w) ==
    /\ writers[w].pc \in {"loaded", "opened"}
    /\ writers' = [writers EXCEPT ![w].pc = "interrupted"]
    /\ call' = [op |-> "interrupt", process |-> w, last |-> call.last]
    /\ UNCHANGED <<stimuli, photoreceptors, collecting_areas>>

NextAreas ==
    \/ \E w \in Savers, name \in ReceptorNames, a \in SaveAreas : SaveLoad(w, name, Num(a))
    \/ \E w \in Savers : SaveOpen(w)
    \/ \E w \in Savers : SaveClose(w)
    \/ \E w \in Savers : Interrupt(w)

SpecAreas == InitAreas /\ [][NextAreas]_vars

-----------------------------------------------------------------------------
(* Claims about compute_photoisomerization_rate, checked under SpecRate.   *)

SameGrid == call.args.stimulus_wavelengths = call.args.receptor_wavelengths

\* C1: the call raises the grid-mismatch error, and returns no rate, exactly
\* when the stimulus and receptor wavelength arrays differ in length or in
\* some element; on identical arrays it returns.
C1_GridMismatch ==
    call.op = "rate" =>
        IF SameGrid THEN call.ret.raised = ""
        ELSE call.ret = Raised(GridMismatch)

\* C1 witness: two grids of the same length that differ in one element were
\* refused.
C1_Witness ==
    /\ call.op = "rate"
    /\ Len(call.args.stimulus_wavelengths) = Len(call.args.receptor_wavelengths)
    /\ ~SameGrid
    /\ call.ret.raised = "ValueError"

\* C2: on identical grids, with non-negative spectra and positive power and
\* areas, the call returns a finite non-negative rate, the all-zero stimulus
\* included.
C2_RateDefined ==
    (call.op = "rate" /\ SameGrid) =>
        /\ call.ret.raised = ""
        /\ IsFinite(call.ret.value)
        /\ Ge0(call.ret.value)

\* C3: doubling power_nw, or collecting_area_um2, with the other arguments
\* fixed doubles the returned rate.
C3_RateLinearity ==
    (call.op = "rate" /\ call.doubled # "" /\ call.before.raised = "") =>
        /\ call.ret.raised = ""
        /\ call.ret.value = Mul(Two, call.before.value)

\* C3 witness: a positive rate was doubled by doubling power_nw.
C3_Witness ==
    /\ call.op = "rate"
    /\ call.doubled = "power_nw"
    /\ call.before.raised = ""
    /\ IsFinite(call.before.value)
    /\ Gt(call.before.value, Zero)

-----------------------------------------------------------------------------
(* Claims about resample_spectrum, checked under SpecResample.             *)

\* The value at p of the polygon through the source points (x, y), for
\* p within the source range: y[k] at a source point, and between two
\* neighbouring source points the weighted mean of their values.
Polygon(x, y, p) ==
    IF \E k \in 1..Len(x) : x[k] = p
    THEN y[CHOOSE k \in 1..Len(x) : x[k] = p]
    ELSE LET j == CHOOSE k \in 1..(Len(x) - 1) : x[k] < p /\ p < x[k + 1]
         IN  Div(Add(Mul(Num(x[j + 1] - p), y[j]), Mul(Num(p - x[j]), y[j + 1])),
                 Num(x[j + 1] - x[j]))

OutsideSource(x, p) == (\A k \in 1..Len(x) : p < x[k]) \/ (\A k \in 1..Len(x) : p > x[k])

ResampleReturned == call.op = "resample" /\ call.ret.raised = ""

\* C4 as stated: 0 at every grid point outside the source range, the linear
\* interpolation of the neighbouring source points at every grid point inside.
C4_InterpolationUnclamped ==
    ResampleReturned =>
        LET x == call.args.wavelengths
            y == call.args.values
            g == call.ret.value.wavelengths
            out == call.ret.value.values
        IN  \A i \in 1..Len(g) :
              out[i] = IF OutsideSource(x, g[i]) THEN Zero ELSE Polygon(x, y, g[i])

\* C4 amended: 0 at every grid point outside the source range; at a grid
\* point inside, the linear interpolation of the neighbouring source points
\* where that is non-negative and 0 where it is negative.
C4_NoExtrapolation ==
    ResampleReturned =>
        LET x == call.args.wavelengths
            y == call.args.values
            g == call.ret.value.wavelengths
            out == call.ret.value.values
        IN  \A i \in 1..Len(g) :
              out[i] = IF OutsideSource(x, g[i]) THEN Zero
                       ELSE IF Lt(Polygon(x, y, g[i]), Zero) THEN Zero
                       ELSE Polygon(x, y, g[i])

\* C4 witness: a returned grid with a point below the source range, a point
\* above it, and a point strictly between two source points whose
\* interpolated value is positive.
C4_Witness ==
    /\ ResampleReturned
    /\ LET x == call.args.wavelengths
           g == call.ret.value.wavelengths
           out == call.ret.value.values
       IN  /\ \E i \in 1..Len(g) : \A k \in 1..Len(x) : g[i] < x[k]
           /\ \E i \in 1..Len(g) : \A k \in 1..Len(x) : g[i] > x[k]
           /\ \E i \in 1..Len(g) :
                /\ ~OutsideSource(x, g[i])
                /\ \A k \in 1..Len(x) : g[i] # x[k]
                /\ Gt(out[i], Zero)

\* C5: with fewer than 2 source points, or wavelength and value arrays of
\* different lengths, the call raises and returns nothing.
C5_TooFewPointsRefused ==
    (/\ call.op = "resample"
     /\ \/ Len(call.args.wavelengths) < 2
        \/ Len(call.args.wavelengths) # Len(call.args.values))
        => call.ret.raised = "ValueError"

\* The canonical grid: the 521 wavelengths 200, 201, ..., 720.
CanonicalGrid == [i \in 1..521 |-> 199 + i]

OnCanonicalGrid ==
    /\ call.op = "resample"
    /\ call.args.wavelengths = CanonicalGrid
    /\ Len(call.args.values) = Len(CanonicalGrid)
    /\ call.args.start = None /\ call.args.end = None /\ call.args.step = None

\* C6 as stated: any values given on the canonical grid come back unchanged,
\* on the canonical grid.
C6_IdentityAnyValues ==
    OnCanonicalGrid =>
        call.ret = Returned([wavelengths |-> CanonicalGrid, values |-> call.args.values])

\* C6 amended: non-negative values given on the canonical grid come back
\* unchanged, on the canonical grid; so resampling a resampled spectrum
\* again changes nothing.
C6_GridIdentity ==
    (OnCanonicalGrid /\ \A i \in 1..Len(call.args.values) : Ge0(call.args.values[i])) =>
        call.ret = Returned([wavelengths |-> CanonicalGrid, values |-> call.args.values])

\* C6 witness: a resampled spectrum that is not all zero was resampled again.
C6_Witness ==
    /\ OnCanonicalGrid
    /\ call.again
    /\ call.ret.raised = ""
    /\ \E i \in 1..Len(call.args.values) : Gt(call.args.values[i], Zero)

-----------------------------------------------------------------------------
(* Claims about govardovskii_nomogram, checked under SpecNomogram.         *)

\* lambda_max is a number of the closed interval [200, 720].
InClosedInterval(l) ==
    /\ IsFinite(l)
    /\ LET up == IF l[3] > 0 THEN Pow10(l[3]) ELSE 1
           down == IF l[3] < 0 THEN Pow10(-l[3]) ELSE 1
       IN  /\ 200 * l[2] * down <= l[1] * up
           /\ l[1] * up <= 720 * l[2] * down

\* C7: the nomogram raises, and returns no spectrum, exactly when lambda_max
\* is outside [200, 720]; 200, 400 and 720 are accepted.
C7_LambdaRange ==
    call.op = "nomogram" =>
        IF InClosedInterval(call.lambda_max)
        THEN call.ret.raised = "" /\ call.ret.value.wavelengths = CanonicalGrid
        ELSE call.ret.raised = "ValueError"

\* C7 witness: the end point 720 was accepted.
C7_Witness ==
    /\ call.op = "nomogram"
    /\ call.lambda_max = Num(720)
    /\ call.ret.raised = ""

-----------------------------------------------------------------------------
(* Claims about import_stimulus_spectrum, checked under Spec.              *)

\* Some row's wavelength is below the row before it.
OutOfOrder(wl) == \E i \in 1..(Len(wl) - 1) : wl[i] > wl[i + 1]

HasDuplicates(wl) == \E i, j \in 1..Len(wl) : i # j /\ wl[i] = wl[j]

MonotonicError == Raised("Wavelength column must be monotonically increasing.")

\* C8 as stated: an import whose raw wavelength column is out of order
\* raises and leaves the stimulus store as it was, duplicates or not.
C8_OutOfOrderRefused ==
    [][OutOfOrder(Column(call'.data, 1)) =>
          call'.ret.raised = "ValueError" /\ stimuli' = stimuli]_vars

\* C8 amended: an import whose raw wavelength column is out of order and
\* holds no wavelength twice raises the monotonicity error and leaves the
\* stimulus store as it was; one that is out of order and holds a
\* wavelength twice is sorted by the merge and is not refused.
C8_OutOfOrderWithoutDuplicatesRefused ==
    [][LET wl == Column(call'.data, 1)
       IN  OutOfOrder(wl) =>
             IF HasDuplicates(wl) THEN call'.ret.raised = ""
             ELSE call'.ret = MonotonicError /\ stimuli' = stimuli]_vars

\* C8 witness: with a spectrum in the store, the import of wavelengths
\* 400, 399, 401 was refused.
C8_Witness ==
    /\ call.op = "import"
    /\ Column(call.data, 1) = <<400, 399, 401>>
    /\ call.ret = MonotonicError
    /\ stimuli[call.name].exists

RECURSIVE IntSum(_, _)
IntSum(vals, I) ==
    IF I = {} THEN 0
    ELSE LET i == CHOOSE k \in I : TRUE IN vals[i] + IntSum(vals, I \ {i})

MergedWarnings(ret) ==
    {i \in 1..Len(ret.value.warnings) : ret.value.warnings[i][1] = "Merged"}

\* C9: when rows share a wavelength, each distinct wavelength is left with
\* the arithmetic mean of the values of its rows (its own value when it has
\* one row) and exactly one warning counts rows minus distinct wavelengths;
\* with no shared wavelength the rows are left as they are and no such
\* warning is returned.
C9_DuplicateMerge ==
    (call.op = "import" /\ Len(call.data) >= 2) =>
        LET wl == Column(call.data, 1)
            vals == Column(call.data, 2)
            distinct == {wl[i] : i \in 1..Len(wl)}
            rows(w) == {i \in 1..Len(wl) : wl[i] = w}
            m == call.merged
        IN  IF HasDuplicates(wl)
            THEN /\ Len(m.wavelengths) = Cardinality(distinct)
                 /\ Len(m.values) = Cardinality(distinct)
                 /\ \A k \in 1..Len(m.wavelengths) :
                      /\ m.wavelengths[k] \in distinct
                      /\ Mul(m.values[k], Num(Cardinality(rows(m.wavelengths[k]))))
                           = Num(IntSum(vals, rows(m.wavelengths[k])))
                 /\ call.ret.raised = ""
                 /\ Cardinality(MergedWarnings(call.ret)) = 1
                 /\ call.ret.value.warnings[1] = MergedWarning(Len(wl) - Cardinality(distinct))
            ELSE /\ m = [wavelengths |-> wl, values |-> AsArray(vals)]
                 /\ call.ret.raised = "" => MergedWarnings(call.ret) = {}

\* C9 witness: wavelengths 400, 400, 401 with values 1, 3, 5 were merged to
\* 400, 401 with values 2, 5 and one warning of 1 merged entry.
C9_Witness ==
    /\ call.op = "import"
    /\ call.data = <<<<400, 1>>, <<400, 3>>, <<401, 5>>>>
    /\ call.merged = [wavelengths |-> <<400, 401>>, values |-> <<Num(2), Num(5)>>]
    /\ call.ret.raised = ""
    /\ call.ret.value.warnings[1] = MergedWarning(1)

\* C10: every stored stimulus spectrum has non-negative values that sum to
\* 1 or are all zero.
C10_StoredNormalized ==
    \A name \in StimulusNames :
        stimuli[name].exists =>
            LET v == stimuli[name].values
            IN  /\ \A i \in 1..Len(v) : IsFinite(v[i]) /\ Ge0(v[i])
                /\ \/ Sum(v) = Num(1)
                   \/ \A i \in 1..Len(v) : v[i] = Zero

\* C10 witness: an import stored a spectrum that is not all zero.
C10_Witness ==
    /\ call.op = "import"
    /\ call.ret.raised = ""
    /\ stimuli[call.name].exists
    /\ \E i \in 1..Len(stimuli[call.name].values) :
         Gt(stimuli[call.name].values[i], Zero)

-----------------------------------------------------------------------------
(* Claims about the request handlers, checked under SpecApp.               *)

NumericKeys == {"power_nw", "area_um2", "collecting_area_um2"}

\* A numeric key that is missing, is no number, or is a number <= 0.
Rejectable(x) ==
    \/ x = Absent
    \/ x = Null
    \/ x.kind = "string" /\ x.text \notin DOMAIN FloatOfText
    \/ x.kind = "number" /\ Le(x.value, Zero)

\* A numeric key that holds a number > 0.
Acceptable(x) == x.kind = "number" /\ Gt(x.value, Zero)

Stored(store, name) == name.text \in DOMAIN store /\ store[name.text].exists

\* C11: a calculation request with a numeric key missing, non-numeric or
\* non-positive is answered 400 with no rate, whether or not the named
\* spectra are stored; one with all three numbers positive that names a
\* stimulus or a receptor that is not stored is answered 404.
C11_CalculateStatus ==
    call.op = "calculate" =>
        LET data == call.data
        IN  /\ (\E k \in NumericKeys : Rejectable(data[k])) =>
                 /\ call.response.status = 400
                 /\ "body" \notin DOMAIN call.response
            /\ ( /\ \A k \in NumericKeys : Acceptable(data[k])
                 /\ ~Stored(stimuli, data.stimulus) \/ ~Stored(photoreceptors, data.receptor) )
                 => call.response.status = 404

\* C11 witness: a request with power_nw = 0 was refused with 400 although
\* both named spectra are stored.
C11_Witness ==
    /\ call.op = "calculate"
    /\ call.data.power_nw = Number(Zero)
    /\ Stored(stimuli, call.data.stimulus)
    /\ Stored(photoreceptors, call.data.receptor)
    /\ call.response = Failed(400, "Power must be positive.")

-----------------------------------------------------------------------------
(* Claims about spectra/collecting_areas.json, checked under SpecAreas.    *)

\* C12: at every point of every save_collecting_area call the file on disk
\* is absent or holds a complete mapping, never an empty or cut text.
C12_FileAlwaysComplete ==
    collecting_areas.exists => json_load(collecting_areas.text).raised = ""

\* No call is between its read and its close, and none was killed there.
Settled == \A w \in Savers : writers[w].pc \in {"idle", "returned", "raised"}

\* C15: once the interleaved calls have all returned, the store holds the
\* entry of the call that wrote last.
C15_LastWriterWins ==
    (Settled /\ call.last # 0) =>
        LET areas == load_collecting_areas(collecting_areas)
            last == writers[call.last]
        IN  /\ areas.raised = ""
            /\ GetItem(areas.value, last.name) = Some(last.area_um2)

-----------------------------------------------------------------------------
(* Claims about the stores, checked under SpecApp.                         *)

\* C13: whatever generate requests were served, the collecting-area store
\* reads as a mapping whose every value is a number > 0.
C13_AreasPositive ==
    LET areas == load_collecting_areas(collecting_areas)
    IN  /\ areas.raised = ""
        /\ \A i \in DOMAIN areas.value : Gt(areas.value[i][2], Zero)

StoredOnGrid(store) ==
    \A name \in DOMAIN store : store[name].exists => store[name].wavelengths = CanonicalGrid

\* C14: every stored stimulus and receptor spectrum lies on the 521-point
\* grid 200, 201, ..., 720, and no calculation is refused for a grid
\* mismatch.
C14_StoredOnCanonicalGrid ==
    /\ StoredOnGrid(stimuli)
    /\ StoredOnGrid(photoreceptors)
    /\ (call.op = "calculate" /\ call.response.status # 200) =>
            call.response.error # GridMismatch

\* C14 witness: an imported stimulus and a generated receptor are both
\* stored and a calculation on the two was answered with a rate.
C14_Witness ==
    /\ call.op = "calculate"
    /\ Stored(stimuli, call.data.stimulus)
    /\ Stored(photoreceptors, call.data.receptor)
    /\ call.response.status = 200
    /\ call.response.body.rate.stimulus_spectrum = "led"
    /\ call.response.body.rate.receptor_spectrum = "rod"

\* C16: a generate request answered with an error leaves the receptor
\* spectra and the collecting-area file as they were.
C16_FailedGenerateChangesNothing ==
    [][(call'.op = "generate" /\ call'.response.status # 200) =>
          (photoreceptors' = photoreceptors /\ collecting_areas' = collecting_areas)]_vars

-----------------------------------------------------------------------------
(* Claims about the cleaning step of the importer, checked under Spec.     *)

\* The mean squared deviation from the mean, with no root taken.
Variance(a) ==
    LET m == Mean(a)
    IN  Mean([i \in 1..Len(a) |-> Mul(Sub(a[i], m), Sub(a[i], m))])

AllZero(a) == \A i \in 1..Len(a) : a[i] = Zero

=============================================================================
